---- MODULE Spec2Model ----
(***************************************************************************)
(* Model of the REST API of src/db/models/course.js (the router: Basic     *)
(* Auth middleware, validation chains, user and course handlers),          *)
(* src/app.js (404 fallback, global error handler) and the two Sequelize   *)
(* models (src/db/models/user.js, src/db/models/course.js lines 1-44).     *)
(*                                                                         *)
(* Every request is served by one process slot.  A handler is cut at its   *)
(* awaits: one action is one database operation together with the          *)
(* synchronous code that follows it up to the next database operation.     *)
(***************************************************************************)
EXTENDS Integers, Sequences, FiniteSets, TLC

VARIABLES users, courses, userSeq, courseSeq, proc

vars == <<users, courses, userSeq, courseSeq, proc>>

(***************************** bounds *************************************)
MaxUsers == 2
MaxCourses == 2
NumProcs == 2

Procs == 1..NumProcs

(************************ values of request fields ************************)
\* JavaScript undefined (field not in the body), JSON null, the empty string
ABSENT == "<undefined>"
NULL == "<null>"
EMPTY == ""
Missing == {ABSENT, NULL, EMPTY}

Emails == {"ann@x.com", "bob@x.com"}
BadEmail == "not-an-email"
FirstNames == {"Ann"}
LastNames == {"Lee"}
Titles == {"T1", "T2"}
Descriptions == {"D1"}

\* ids a request can name: the ids the counters can reach, and one beyond
IdsNamed == 1..(MaxCourses + 1)

(************************** bcryptjs **************************************)
\* bcryptjs.hashSync: a one-way image of the plaintext (the salt is left out)
HashSync(plain) == [alg |-> "bcrypt", of |-> plain]

\* faulty variant: every password is accepted
CompareSyncLax(plain, hash) == TRUE

\* bcryptjs.compareSync(plain, hash)
CompareSync(plain, hash) == hash = HashSync(plain)

(************************** responses *************************************)
NoBody == [type |-> "none", keys |-> {}, message |-> "", errors |-> <<>>,
           errorMessage |-> "", text |-> "", data |-> {}]

\* res.json({ message: m })
JsonMessage(m) == [NoBody EXCEPT !.type = "object", !.keys = {"message"}, !.message = m]

\* res.json({ errors: list })
JsonErrors(list) == [NoBody EXCEPT !.type = "object", !.keys = {"errors"}, !.errors = list]

\* res.json({ error: { message: m } })
JsonError(m) == [NoBody EXCEPT !.type = "object", !.keys = {"error"}, !.errorMessage = m]

\* res.json("some string")
JsonString(s) == [NoBody EXCEPT !.type = "string", !.text = s]

NoLocation == <<>>
NoResponse == [status |-> 0, body |-> NoBody, location |-> NoLocation]

Respond(status, body) == [status |-> status, body |-> body, location |-> NoLocation]

(************************** errors ****************************************)
\* a thrown Error: err.status is set only by the 404 fallback
Error(msg) == [hasStatus |-> FALSE, status |-> 0, message |-> msg]
ErrorWithStatus(msg, st) == [hasStatus |-> TRUE, status |-> st, message |-> msg]

TypeErrorMessage == "Cannot read property 'userId' of null"
UniqueMessage == "Email address already in use!"
NotNullUserIdMessage == "notNull Violation: Course.userId cannot be null"
ForeignKeyMessage == "FOREIGN KEY constraint failed"

\* app.js global error handler: status err.status || 500, body {error:{message}}
GlobalErrorHandler(err) ==
    Respond(IF err.hasStatus /\ err.status # 0 THEN err.status ELSE 500,
            JsonError(err.message))

(************************** requests **************************************)
EmptyBody == [firstName |-> ABSENT, lastName |-> ABSENT, emailAddress |-> ABSENT,
              password |-> ABSENT, title |-> ABSENT, description |-> ABSENT,
              estimatedTime |-> ABSENT, materialsNeeded |-> ABSENT, userId |-> <<>>]

\* basic-auth's auth(req): <<>> when the header is absent or malformed
NoCredentials == <<>>
Credentials(name, pass) == <<[name |-> name, pass |-> pass]>>

AuthRoutes == {"GET /users", "POST /courses", "PUT /courses/:id", "DELETE /courses/:id"}

Request(route, creds, id, body) == [route |-> route, creds |-> creds, id |-> id, body |-> body]
NoRequest == Request("none", NoCredentials, 0, EmptyBody)

(************************** express-validator *****************************)
\* .exists({ checkNull: true, checkFalsy: true })
Exists(v) == v \notin Missing

\* .isEmail(): the value is stringified first, undefined and null become ""
IsEmail(v) == v \in Emails

Rule(field, test, msg) == [field |-> field, test |-> test, msg |-> msg]

\* POST /users chain, in declaration order; a chain runs all of its validators
UserRules ==
    << Rule("firstName", "exists", "Please provide  \"firstName\""),
       Rule("lastName", "exists", "Please provide \"lastName\""),
       Rule("emailAddress", "exists", "Please provide \"emailAddress\""),
       Rule("emailAddress", "isEmail", "Please provide valid \"email address\" "),
       Rule("password", "exists", "Please provide \"password\"") >>

\* POST /courses chain
CourseRules ==
    << Rule("title", "exists", "Please provide \"title\""),
       Rule("description", "exists", "Please provide \"description\"") >>

\* PUT /courses/:id chain
CoursePutRules ==
    << Rule("title", "exists", "Please provide \"title\""),
       Rule("description", "exists", "Pleas provide \"description\"") >>

RuleFails(rule, body) ==
    IF rule.test = "exists" THEN ~Exists(body[rule.field]) ELSE ~IsEmail(body[rule.field])

\* validationResult(req).array().map(error => error.msg)
RECURSIVE ErrorMessages(_, _)
ErrorMessages(rules, body) ==
    IF rules = <<>> THEN <<>>
    ELSE (IF RuleFails(Head(rules), body) THEN <<Head(rules).msg>> ELSE <<>>)
         \o ErrorMessages(Tail(rules), body)

(************************** persistence ***********************************)
\* faulty variant: the unique index is missing
UniqueViolationOff(email) == FALSE

\* User.emailAddress unique: { msg: "Email address already in use!" }
UniqueViolation(email) == \E u \in users : u.emailAddress = email

\* faulty variant: the foreign key is not enforced
ForeignKeyOff(userId) == FALSE

\* Course.belongsTo(User, { foreignKey: { fieldName: "userId", allowNull: false } })
NotNullViolation(userId) == userId = <<>>

ForeignKeyViolation(userId) == ~ \E u \in users : u.id = userId[1]

\* a value as a column stores it: undefined is written as NULL
Stored(v) == IF v = ABSENT THEN NULL ELSE v

NewUser(body, hash) ==
    [id |-> userSeq + 1, firstName |-> body.firstName, lastName |-> body.lastName,
     emailAddress |-> body.emailAddress, password |-> hash]

NewCourse(body) ==
    [id |-> courseSeq + 1, title |-> body.title, description |-> body.description,
     estimatedTime |-> Stored(body.estimatedTime),
     materialsNeeded |-> Stored(body.materialsNeeded), userId |-> body.userId[1]]

\* Course.findByPk(id): the set holding the row, or {} for null
FindByPk(id) == {c \in courses : c.id = id}

\* one column of Course.update(values): a value that is undefined is either left
\* out of the SET clause (omit) or written as NULL, by the ORM's version
UpdatedColumn(old, new, omit) == IF new = ABSENT THEN (IF omit THEN old ELSE NULL) ELSE new

\* faulty variant: the update forgets materialsNeeded
UpdatedCourseNoMaterials(c, body, omit) ==
    [c EXCEPT !.title = UpdatedColumn(c.title, body.title, omit),
              !.description = UpdatedColumn(c.description, body.description, omit),
              !.estimatedTime = UpdatedColumn(c.estimatedTime, body.estimatedTime, omit)]

\* faulty variant: the update also writes the body's userId
UpdatedCourseWithOwner(c, body, omit) ==
    [c EXCEPT !.title = UpdatedColumn(c.title, body.title, omit),
              !.description = UpdatedColumn(c.description, body.description, omit),
              !.estimatedTime = UpdatedColumn(c.estimatedTime, body.estimatedTime, omit),
              !.materialsNeeded = UpdatedColumn(c.materialsNeeded, body.materialsNeeded, omit),
              !.userId = IF body.userId = <<>> THEN c.userId ELSE body.userId[1]]

\* the row after Course.update({title, description, estimatedTime, materialsNeeded})
UpdatedCourse(c, body, omit) ==
    [c EXCEPT !.title = UpdatedColumn(c.title, body.title, omit),
              !.description = UpdatedColumn(c.description, body.description, omit),
              !.estimatedTime = UpdatedColumn(c.estimatedTime, body.estimatedTime, omit),
              !.materialsNeeded = UpdatedColumn(c.materialsNeeded, body.materialsNeeded, omit)]

\* Course.update(values, { where: { id } })
CourseUpdate(id, body, omit) ==
    {IF c.id = id THEN UpdatedCourse(c, body, omit) ELSE c : c \in courses}

\* Course.destroy({ where: { id } })
CourseDestroy(id) == {c \in courses : c.id # id}

\* attributes: { exclude: ["createdAt", "updatedAt", "password"] }
PublicUser(u) == [id |-> u.id, firstName |-> u.firstName, lastName |-> u.lastName,
                  emailAddress |-> u.emailAddress]

\* include: [{ model: User, as: "owner" }]
WithOwner(c) == [course |-> c, owner |-> {PublicUser(u) : u \in {x \in users : x.id = c.userId}}]

(************************** response bodies with data *********************)
JsonUser(u) == [NoBody EXCEPT !.type = "object",
                              !.keys = {"id", "firstName", "lastName", "emailAddress"},
                              !.data = {PublicUser(u)}]
JsonCourses(cs) == [NoBody EXCEPT !.type = "array", !.data = {WithOwner(c) : c \in cs}]
JsonCourse(c) == [NoBody EXCEPT !.type = "object", !.keys = {"course"}, !.data = {WithOwner(c)}]

RespondAt(status, location) == [status |-> status, body |-> NoBody, location |-> location]

(************************** process slots *********************************)
Idle == [pc |-> "idle", req |-> NoRequest, currentUser |-> <<>>, res |-> NoResponse,
         affected |-> 0]

\* the slot once the response is sent
Done(slot, res) == [slot EXCEPT !.pc = "done", !.res = res]

Init ==
    /\ users = {}
    /\ courses = {}
    /\ userSeq = 0
    /\ courseSeq = 0
    /\ proc = [p \in Procs |-> Idle]

InFlight(route) == Cardinality({p \in Procs : proc[p].pc \notin {"idle", "done"} /\ proc[p].req.route = route})

\* a request arrives at a free slot; the counters are capped here
Receive(p, r) ==
    /\ proc[p].pc = "idle"
    /\ r.route = "POST /users" => userSeq + InFlight("POST /users") < MaxUsers
    /\ r.route = "POST /courses" => courseSeq + InFlight("POST /courses") < MaxCourses
    /\ proc' = [proc EXCEPT ![p] = [Idle EXCEPT !.pc = IF r.route \in AuthRoutes THEN "auth" ELSE "handler",
                                                !.req = r]]
    /\ UNCHANGED <<users, courses, userSeq, courseSeq>>

\* users.find(u => u.emailAddress === credentials.name)
FindUser(name) == {u \in users : u.emailAddress = name}

\* the outcome of authenticateUser: "ok" or the reason logged
AuthOutcome(creds) ==
    IF creds = NoCredentials THEN "Auth header not found"
    ELSE IF FindUser(creds[1].name) = {} THEN "User not found"
    ELSE IF \E u \in FindUser(creds[1].name) : CompareSync(creds[1].pass, u.password) THEN "ok"
    ELSE "Authentication failure"

AccessDenied == Respond(401, JsonMessage("Access Denied"))

\* authenticateUser: 401 or next() with req.currentUser set
AuthenticateUser(p) ==
    /\ proc[p].pc = "auth"
    /\ LET creds == proc[p].req.creds IN
       IF AuthOutcome(creds) = "ok"
       THEN \E u \in FindUser(creds[1].name) :
               proc' = [proc EXCEPT ![p].pc = "handler", ![p].currentUser = <<u>>]
       ELSE proc' = [proc EXCEPT ![p] = Done(proc[p], AccessDenied)]
    /\ UNCHANGED <<users, courses, userSeq, courseSeq>>

Handling(p, route) == proc[p].pc = "handler" /\ proc[p].req.route = route

\* app.get("/")
GetRoot(p) ==
    /\ Handling(p, "GET /")
    /\ proc' = [proc EXCEPT ![p] = Done(proc[p], Respond(200, JsonMessage("Welcome to the REST API project Bitches!")))]
    /\ UNCHANGED <<users, courses, userSeq, courseSeq>>

\* app.use 404 fallback, then the global error handler
RouteNotFound(p) ==
    /\ Handling(p, "unmatched")
    /\ proc' = [proc EXCEPT ![p] = Done(proc[p], GlobalErrorHandler(ErrorWithStatus("Route Not Found", 404)))]
    /\ UNCHANGED <<users, courses, userSeq, courseSeq>>

\* GET /users
GetUsers(p) ==
    /\ Handling(p, "GET /users")
    /\ proc' = [proc EXCEPT ![p] = Done(proc[p], Respond(200, JsonUser(proc[p].currentUser[1])))]
    /\ UNCHANGED <<users, courses, userSeq, courseSeq>>

\* POST /users
PostUsers(p) ==
    /\ Handling(p, "POST /users")
    /\ LET body == proc[p].req.body
           errorMessages == ErrorMessages(UserRules, body)
       IN IF errorMessages # <<>>
          THEN /\ proc' = [proc EXCEPT ![p] = Done(proc[p], Respond(400, JsonErrors(errorMessages)))]
               /\ UNCHANGED <<users, userSeq>>
          ELSE IF UniqueViolation(body.emailAddress)
          THEN /\ proc' = [proc EXCEPT ![p] = Done(proc[p], GlobalErrorHandler(Error(UniqueMessage)))]
               /\ UNCHANGED <<users, userSeq>>
          ELSE /\ users' = users \cup {NewUser(body, HashSync(body.password))}
               /\ userSeq' = userSeq + 1
               /\ proc' = [proc EXCEPT ![p] = Done(proc[p], RespondAt(201, <<"/">>))]
    /\ UNCHANGED <<courses, courseSeq>>

\* GET /courses
GetCourses(p) ==
    /\ Handling(p, "GET /courses")
    /\ proc' = [proc EXCEPT ![p] = Done(proc[p], Respond(200, JsonCourses(courses)))]
    /\ UNCHANGED <<users, courses, userSeq, courseSeq>>

\* GET /courses/:id
GetCourseById(p) ==
    /\ Handling(p, "GET /courses/:id")
    /\ LET course == FindByPk(proc[p].req.id) IN
       IF course # {}
       THEN \E c \in course : proc' = [proc EXCEPT ![p] = Done(proc[p], Respond(200, JsonCourse(c)))]
       ELSE proc' = [proc EXCEPT ![p] = Done(proc[p], Respond(404, JsonMessage("Course not exist")))]
    /\ UNCHANGED <<users, courses, userSeq, courseSeq>>

\* POST /courses
PostCourses(p) ==
    /\ Handling(p, "POST /courses")
    /\ LET body == proc[p].req.body
           errorMessages == ErrorMessages(CourseRules, body)
       IN IF errorMessages # <<>>
          THEN /\ proc' = [proc EXCEPT ![p] = Done(proc[p], Respond(400, JsonErrors(errorMessages)))]
               /\ UNCHANGED <<courses, courseSeq>>
          ELSE IF NotNullViolation(body.userId)
          THEN /\ proc' = [proc EXCEPT ![p] = Done(proc[p], GlobalErrorHandler(Error(NotNullUserIdMessage)))]
               /\ UNCHANGED <<courses, courseSeq>>
          ELSE IF ForeignKeyViolation(body.userId)
          THEN /\ proc' = [proc EXCEPT ![p] = Done(proc[p], GlobalErrorHandler(Error(ForeignKeyMessage)))]
               /\ UNCHANGED <<courses, courseSeq>>
          ELSE /\ courses' = courses \cup {NewCourse(body)}
               /\ courseSeq' = courseSeq + 1
               /\ proc' = [proc EXCEPT ![p] = Done(proc[p], RespondAt(201, <<"/courses/", courseSeq + 1>>))]
    /\ UNCHANGED <<users, userSeq>>

\* faulty variant: the owner check always passes
OwnsAnyone(c, u) == TRUE

\* course.userId === user.id
Owns(c, u) == c.userId = u.id

\* faulty variant: the 403 is sent without a body
ForbiddenEmpty == Respond(403, NoBody)

Forbidden == Respond(403, JsonString("User has no course"))

\* faulty variant: a missing course is answered 404 before the owner check
OwnerCheckGuarded(p, next) ==
    LET course == FindByPk(proc[p].req.id) IN
    IF course = {}
    THEN proc' = [proc EXCEPT ![p] = Done(proc[p], Respond(404, JsonMessage("Course not exist")))]
    ELSE \E c \in course :
            IF c.userId = proc[p].currentUser[1].id
            THEN proc' = [proc EXCEPT ![p].pc = next]
            ELSE proc' = [proc EXCEPT ![p] = Done(proc[p], Respond(403, JsonString("User has no course")))]

\* the handler's part up to `await Course.update/destroy`: findByPk and the owner check
OwnerCheck(p, next) ==
    LET course == FindByPk(proc[p].req.id) IN
    IF course = {}
    THEN proc' = [proc EXCEPT ![p] = Done(proc[p], GlobalErrorHandler(Error(TypeErrorMessage)))]
    ELSE \E c \in course :
            IF Owns(c, proc[p].currentUser[1])
            THEN proc' = [proc EXCEPT ![p].pc = next]
            ELSE proc' = [proc EXCEPT ![p] = Done(proc[p], Forbidden)]

\* PUT /courses/:id up to the update
PutCourse(p) ==
    /\ Handling(p, "PUT /courses/:id")
    /\ LET errorMessages == ErrorMessages(CoursePutRules, proc[p].req.body) IN
       IF errorMessages # <<>>
       THEN proc' = [proc EXCEPT ![p] = Done(proc[p], Respond(400, JsonErrors(errorMessages)))]
       ELSE OwnerCheck(p, "update")
    /\ UNCHANGED <<users, courses, userSeq, courseSeq>>

\* PUT /courses/:id: Course.update and the 204
PutCourseUpdate(p) ==
    /\ proc[p].pc = "update"
    /\ \E omit \in BOOLEAN : courses' = CourseUpdate(proc[p].req.id, proc[p].req.body, omit)
    /\ proc' = [proc EXCEPT ![p] = [Done(proc[p], Respond(204, NoBody))
                                      EXCEPT !.affected = Cardinality(FindByPk(proc[p].req.id))]]
    /\ UNCHANGED <<users, userSeq, courseSeq>>

\* DELETE /courses/:id up to the destroy
DeleteCourse(p) ==
    /\ Handling(p, "DELETE /courses/:id")
    /\ OwnerCheck(p, "destroy")
    /\ UNCHANGED <<users, courses, userSeq, courseSeq>>

\* DELETE /courses/:id: Course.destroy and the 204
DeleteCourseDestroy(p) ==
    /\ proc[p].pc = "destroy"
    /\ courses' = CourseDestroy(proc[p].req.id)
    /\ proc' = [proc EXCEPT ![p] = [Done(proc[p], Respond(204, NoBody))
                                      EXCEPT !.affected = Cardinality(FindByPk(proc[p].req.id))]]
    /\ UNCHANGED <<users, userSeq, courseSeq>>

Step(p) ==
    \/ AuthenticateUser(p)
    \/ GetRoot(p)
    \/ RouteNotFound(p)
    \/ GetUsers(p)
    \/ PostUsers(p)
    \/ GetCourses(p)
    \/ GetCourseById(p)
    \/ PostCourses(p)
    \/ PutCourse(p)
    \/ PutCourseUpdate(p)
    \/ DeleteCourse(p)
    \/ DeleteCourseDestroy(p)

(************************** request sets **********************************)
\* the connection ends and the slot is free for the next request
Close(p) ==
    /\ proc[p].pc = "done"
    /\ proc' = [proc EXCEPT ![p] = Idle]
    /\ UNCHANGED <<users, courses, userSeq, courseSeq>>

\* users sign up with SignupPassword; WrongPassword is nobody's password
SignupPassword == "pw1"
WrongPassword == "pw2"

CredentialSets ==
    {NoCredentials, Credentials("ann@x.com", SignupPassword),
     Credentials("ann@x.com", WrongPassword), Credentials("bob@x.com", SignupPassword)}

UserBodies ==
    {[EmptyBody EXCEPT !.firstName = f, !.lastName = l, !.emailAddress = e, !.password = pw] :
        f \in {ABSENT} \cup FirstNames, l \in {EMPTY} \cup LastNames,
        e \in Missing \cup {BadEmail} \cup Emails, pw \in {NULL, SignupPassword}}

CourseBody(t, d, est, mat, uid) ==
    [EmptyBody EXCEPT !.title = t, !.description = d, !.estimatedTime = est,
                      !.materialsNeeded = mat, !.userId = uid]

\* bodies that fail a course chain
InvalidCourseBodies ==
    {CourseBody(t, d, ABSENT, ABSENT, <<1>>) :
        t \in {NULL} \cup Titles, d \in {EMPTY} \cup Descriptions} \ 
    {CourseBody(t, d, ABSENT, ABSENT, <<1>>) : t \in Titles, d \in Descriptions}

PostCourseBodies ==
    InvalidCourseBodies
    \cup {CourseBody("T1", "D1", ABSENT, ABSENT, uid) :
            uid \in {<<>>} \cup {<<i>> : i \in 1..(MaxUsers + 1)}}
    \cup {CourseBody("T1", "D1", "2h", "pen", <<1>>)}

PutCourseBodies ==
    InvalidCourseBodies
    \cup {CourseBody("T2", "D1", "2h", "pen", <<>>),
          CourseBody("T1", "D1", ABSENT, NULL, <<>>),
          CourseBody("T2", "D1", "2h", "pen", <<2>>)}

Requests ==
    {Request(r, NoCredentials, 0, EmptyBody) : r \in {"GET /", "unmatched", "GET /courses"}}
    \cup {Request("GET /users", c, 0, EmptyBody) : c \in CredentialSets}
    \cup {Request("POST /users", NoCredentials, 0, b) : b \in UserBodies}
    \cup {Request("GET /courses/:id", NoCredentials, i, EmptyBody) : i \in IdsNamed}
    \cup {Request("POST /courses", c, 0, b) : c \in CredentialSets, b \in PostCourseBodies}
    \cup {Request("PUT /courses/:id", c, i, b) :
            c \in CredentialSets, i \in IdsNamed, b \in PutCourseBodies}
    \cup {Request("DELETE /courses/:id", c, i, EmptyBody) : c \in CredentialSets, i \in IdsNamed}

\* one request at a time
Next ==
    \/ \E r \in Requests : Receive(1, r)
    \/ Step(1)
    \/ Close(1)

Spec == Init /\ [][Next]_vars

(************************** concurrent requests ***************************)
AnnCredentials == Credentials("ann@x.com", SignupPassword)
BobCredentials == Credentials("bob@x.com", SignupPassword)
SignupBody(first, email) ==
    [EmptyBody EXCEPT !.firstName = first, !.lastName = "Lee",
                      !.emailAddress = email, !.password = SignupPassword]

\* the requests of the concurrent scenario: two users signing up (each possibly
\* twice at once) and creating, updating and deleting courses
ConcRequests ==
    {Request("POST /users", NoCredentials, 0, SignupBody("Ann", "ann@x.com")),
     Request("POST /users", NoCredentials, 0, SignupBody("Ann", "bob@x.com")),
     Request("POST /courses", AnnCredentials, 0, CourseBody("T1", "D1", ABSENT, ABSENT, <<1>>)),
     Request("POST /courses", BobCredentials, 0, CourseBody("T1", "D1", ABSENT, ABSENT, <<MaxUsers + 1>>)),
     Request("PUT /courses/:id", AnnCredentials, 1, CourseBody("T2", "D1", "2h", "pen", <<>>)),
     Request("PUT /courses/:id", BobCredentials, 1, CourseBody("T1", "D1", ABSENT, NULL, <<>>)),
     Request("DELETE /courses/:id", AnnCredentials, 1, EmptyBody),
     Request("DELETE /courses/:id", BobCredentials, 1, EmptyBody)}

\* requests served concurrently, interleaved at their awaits
ConcNext ==
    \E p \in Procs :
        \/ \E r \in ConcRequests : Receive(p, r)
        \/ AuthenticateUser(p)
        \/ PostUsers(p)
        \/ PostCourses(p)
        \/ PutCourse(p)
        \/ PutCourseUpdate(p)
        \/ DeleteCourse(p)
        \/ DeleteCourseDestroy(p)
        \/ Close(p)

ConcSpec == Init /\ [][ConcNext]_vars

(************************** properties ************************************)
\* p takes a step
Steps(p) == proc'[p] # proc[p]

Answered(p, route) == proc[p].pc = "done" /\ proc[p].req.route = route

\* the credentials are absent, name no stored user, or give a password that
\* does not hash to the stored one
Rejected(creds) ==
    \/ creds = NoCredentials
    \/ \A u \in users : u.emailAddress = creds[1].name => u.password # HashSync(creds[1].pass)

\* C1: on a route guarded by authenticateUser, a request without credentials,
\* naming an unknown email or giving a wrong password is answered 401
\* {"message":"Access Denied"} by the middleware step itself (the handler is
\* not entered), and users and courses are unchanged.
C1_AuthFailureDenied ==
    [][\A p \in Procs :
        (proc[p].pc = "auth" /\ Rejected(proc[p].req.creds) /\ Steps(p))
        => /\ proc[p].req.route \in AuthRoutes
           /\ proc'[p].pc = "done"
           /\ proc'[p].res.status = 401
           /\ proc'[p].res.body.type = "object"
           /\ proc'[p].res.body.keys = {"message"}
           /\ proc'[p].res.body.message = "Access Denied"
           /\ users' = users
           /\ courses' = courses]_vars

\* a PUT with a wrong password for an existing user was denied while a course exists
C1_Witness ==
    \E p \in Procs :
        /\ Answered(p, "PUT /courses/:id")
        /\ proc[p].res.status = 401
        /\ proc[p].req.creds # NoCredentials
        /\ \E u \in users : u.emailAddress = proc[p].req.creds[1].name
        /\ FindByPk(proc[p].req.id) # {}

ValidCourseBody(body) == body.title \notin Missing /\ body.description \notin Missing

\* p is in the handler of route with an authenticated user, the course named exists
AtCourse(p, route) ==
    /\ proc[p].pc = "handler"
    /\ proc[p].req.route = route
    /\ route = "PUT /courses/:id" => ValidCourseBody(proc[p].req.body)
    /\ FindByPk(proc[p].req.id) # {}

IsOwner(p) == \E c \in FindByPk(proc[p].req.id) : c.userId = proc[p].currentUser[1].id

\* C2: a PUT (valid body) or DELETE by an authenticated user who is not the
\* course's owner is answered 403 and the course (all courses) stay as they were.
C2_NonOwnerForbidden ==
    [][\A p \in Procs : \A route \in {"PUT /courses/:id", "DELETE /courses/:id"} :
        (AtCourse(p, route) /\ ~IsOwner(p) /\ Steps(p))
        => /\ proc'[p].pc = "done"
           /\ proc'[p].res.status = 403
           /\ courses' = courses]_vars

\* a non-owner's DELETE was answered 403 and the course is still there
C2_Witness ==
    \E p \in Procs :
        /\ Answered(p, "DELETE /courses/:id")
        /\ proc[p].res.status = 403
        /\ \E c \in FindByPk(proc[p].req.id) : c.userId # proc[p].currentUser[1].id

\* the fields a PUT body carries are the fields of row c
Reflects(c, body) ==
    /\ c.title = body.title
    /\ c.description = body.description
    /\ body.estimatedTime # ABSENT => c.estimatedTime = body.estimatedTime
    /\ body.materialsNeeded # ABSENT => c.materialsNeeded = body.materialsNeeded

UniqueEmails == \A u, v \in users : u.emailAddress = v.emailAddress => u = v

\* C4: no two users share an emailAddress; a POST /users (valid body) whose
\* emailAddress is already stored fails with the uniqueness error and leaves
\* the users as they were, under every interleaving of POST /users requests.
C4_EmailUnique ==
    /\ []UniqueEmails
    /\ [][\A p \in Procs :
            (/\ Handling(p, "POST /users")
             /\ ErrorMessages(UserRules, proc[p].req.body) = <<>>
             /\ \E u \in users : u.emailAddress = proc[p].req.body.emailAddress
             /\ Steps(p))
            => /\ users' = users
               /\ proc'[p].res.status = 500
               /\ proc'[p].res.body.errorMessage = "Email address already in use!"]_vars

\* two sign-ups with one email were in flight together; the later one failed
C4_Witness ==
    \E p, q \in Procs :
        /\ p # q
        /\ Answered(p, "POST /users") /\ proc[p].res.status = 201
        /\ Answered(q, "POST /users") /\ proc[q].res.status = 500
        /\ proc[p].req.body.emailAddress = proc[q].req.body.emailAddress

EveryCourseOwned == \A c \in courses : \E u \in users : u.id = c.userId

\* C5: every course's userId is the id of an existing user, and no step
\* removes a user.
C5_CourseOwnerExists ==
    /\ []EveryCourseOwned
    /\ [][users \subseteq users']_vars

\* a POST /courses naming a user that does not exist was refused, another was stored
C5_Witness ==
    /\ courses # {}
    /\ \E p \in Procs :
        /\ Answered(p, "POST /courses")
        /\ proc[p].res.status = 500
        /\ proc[p].req.body.userId # <<>>
        /\ ~ \E u \in users : u.id = proc[p].req.body.userId[1]

RequiredFields(route) ==
    IF route = "POST /users" THEN {"firstName", "lastName", "emailAddress", "password"}
    ELSE {"title", "description"}

\* the required fields that are missing, null or empty, and a malformed emailAddress
FailingFields(route, body) ==
    {f \in RequiredFields(route) :
        \/ body[f] \in Missing
        \/ f = "emailAddress" /\ body[f] \notin Emails}

ValidatedRoutes == {"POST /users", "POST /courses", "PUT /courses/:id"}

\* C6: a request to a validated route with a failing required field (that got
\* past authentication) is answered 400 with exactly one message per failing field.
C6_OneMessagePerField ==
    \A p \in Procs :
        (/\ proc[p].pc = "done"
         /\ proc[p].req.route \in ValidatedRoutes
         /\ proc[p].res.status # 401
         /\ FailingFields(proc[p].req.route, proc[p].req.body) # {})
        => /\ proc[p].res.status = 400
           /\ Len(proc[p].res.body.errors)
                = Cardinality(FailingFields(proc[p].req.route, proc[p].req.body))

FailureStatuses == {400, 401, 403, 404, 500}

\* C7 as stated: every failure response is a JSON object with a message field
\* (read generously: at top level, or inside its error object).
C7_EveryFailureHasMessage ==
    \A p \in Procs :
        (proc[p].pc = "done" /\ proc[p].res.status \in FailureStatuses)
        => /\ proc[p].res.body.type = "object"
           /\ proc[p].res.body.keys \cap {"message", "error"} # {}

\* C7 as the code has it: every failure response has a JSON body; 401 and the
\* course 404 carry a top-level message, the global error handler's responses
\* (route 404, 500) carry error.message, a 400 carries the errors list and no
\* message, a 403 is a bare JSON string.
C7_FailureBodies ==
    \A p \in Procs :
        (proc[p].pc = "done" /\ proc[p].res.status \in FailureStatuses)
        => LET st == proc[p].res.status
               body == proc[p].res.body
           IN /\ body.type \in {"object", "string"}
              /\ st = 400 => body.type = "object" /\ body.keys = {"errors"} /\ body.errors # <<>>
              /\ st = 401 => body.type = "object" /\ body.keys = {"message"} /\ body.message # ""
              /\ st = 403 => body.type = "string" /\ body.text # ""
              /\ st = 404 => /\ body.type = "object"
                             /\ IF proc[p].req.route = "GET /courses/:id"
                                THEN body.keys = {"message"} /\ body.message # ""
                                ELSE body.keys = {"error"} /\ body.errorMessage # ""
              /\ st = 500 => body.type = "object" /\ body.keys = {"error"} /\ body.errorMessage # ""

\* a non-owner's PUT was answered 403 with the bare string
C7_Witness ==
    \E p \in Procs :
        /\ Answered(p, "PUT /courses/:id")
        /\ proc[p].res.status = 403
        /\ proc[p].res.body.type = "string"
        /\ proc[p].res.body.text = "User has no course"

\* C8: a PUT (valid body) or DELETE by an authenticated user for an id that
\* matches no course is answered 500 {"error":{"message":...}} by the global
\* error handler, and the courses are unchanged.
C8_MissingCourseIs500 ==
    [][\A p \in Procs : \A route \in {"PUT /courses/:id", "DELETE /courses/:id"} :
        (/\ Handling(p, route)
         /\ route = "PUT /courses/:id" => ValidCourseBody(proc[p].req.body)
         /\ FindByPk(proc[p].req.id) = {}
         /\ Steps(p))
        => /\ proc'[p].pc = "done"
           /\ proc'[p].res.status = 500
           /\ proc'[p].res.body.type = "object"
           /\ proc'[p].res.body.keys = {"error"}
           /\ proc'[p].res.body.errorMessage = TypeErrorMessage
           /\ courses' = courses]_vars

\* a DELETE of an id that was deleted before was answered 500
C8_Witness ==
    \E p \in Procs :
        /\ Answered(p, "DELETE /courses/:id")
        /\ proc[p].res.status = 500
        /\ proc[p].req.id <= courseSeq
        /\ courses # {}

\* C9: no step changes the userId of a stored course.
C9_OwnerImmutable ==
    [][\A c \in courses : \A d \in courses' : d.id = c.id => d.userId = c.userId]_vars

\* a PUT whose body names another userId was answered 204; the owner is as before
C9_Witness ==
    \E p \in Procs :
        /\ Answered(p, "PUT /courses/:id")
        /\ proc[p].res.status = 204
        /\ proc[p].req.body.userId # <<>>
        /\ \E c \in FindByPk(proc[p].req.id) : c.userId # proc[p].req.body.userId[1]

\* C10: a PUT answered 204 has written to a row that existed when
\* Course.update ran.
C10_PutWritesExistingRow ==
    \A p \in Procs :
        (Answered(p, "PUT /courses/:id") /\ proc[p].res.status = 204)
        => proc[p].affected = 1

====
